---- MODULE Spec2Model ----
(***************************************************************************)
(* LinasPedidos voice bridge: Twilio Media Streams -> Google streaming     *)
(* speech recognition -> Twilio call update.                               *)
(*                                                                         *)
(* This module models the states-map bridge (src/unnamed/part_000): the    *)
(* mu-law decoder, the per-stream state objects kept in the global         *)
(* `states` map, the recognition streams they open, and the WebSocket      *)
(* handlers (start / media / stop / close) together with the callbacks of  *)
(* the recognition stream (error / data).                                  *)
(*                                                                         *)
(* Node runs every handler to completion, so each handler is one action.   *)
(* An exception that leaves a handler is uncaught (the program installs no *)
(* uncaughtException handler): the process ends, `crashed` becomes TRUE    *)
(* and nothing more happens.                                               *)
(***************************************************************************)
EXTENDS Integers, Sequences, FiniteSets, TLC

(* ------------------------------ bounds -------------------------------- *)
MaxConns == 2         \* WebSocket connections accepted
MaxChannels == 2      \* recognition streams ever opened (streamingRecognize calls)
MaxAudio == 1         \* audio messages written on one recognition stream
MaxUpdates == 2       \* call updates ever issued
MaxPayloadLen == 1    \* bytes in one media payload
MaxBufLen == 2        \* bytes in a buffer handed to the decoder on its own

Conns == 1..MaxConns

(* --------------------------- input alphabets -------------------------- *)
Null == "null"                 \* JS null
Undefined == "undefined"       \* JS undefined
StreamSids == {"SD1", "SD2"}
MapKeys == StreamSids \cup {Undefined}     \* keys states.set can be given
CallSids == {"CA1", "CA2"}
PayloadBytes == {255, 0}       \* 0xFF decodes in range, 0x00 does not
BufBytes == {255, 127, 0, 128}
NoMedia == <<-1>>              \* the event has no `media` field

SeqsUpTo(S, n) == UNION {[1..k -> S] : k \in 0..n}

Payloads == SeqsUpTo(PayloadBytes, MaxPayloadLen) \cup {NoMedia}

\* transcripts are character strings; " " is whitespace
Transcripts == {<<>>, <<" ">>, <<"h">>, <<" ", "h">>}

Truthy(v) == v \notin {Null, Undefined}

Min(a, b) == IF a < b THEN a ELSE b

(* ------------------------------ mu-law -------------------------------- *)
Pow2(k) == 2 ^ k

\* function muLawToLinearSample(u8)
muLawToLinearSample(u8in) ==
  LET u == 255 - u8in                     \* ~u8 & 0xff
      sign == IF u >= 128 THEN -1 ELSE 1  \* (u8 & 0x80) ? -1 : 1
      exponent == (u \div 16) % 8         \* (u8 >> 4) & 0x07
      mantissa == u % 16                  \* u8 & 0x0F
      magnitude == ((mantissa * 16) + 8) * Pow2(exponent + 3)
  IN  sign * (magnitude - 132)

\* Buffer.writeInt16LE(value): RangeError unless -32768 <= value <= 32767
Int16Fits(s) == s >= -32768 /\ s <= 32767

\* the two bytes writeInt16LE stores, low byte first
Int16LE(s) ==
  LET w == (s + 65536) % 65536 IN <<w % 256, w \div 256>>

RECURSIVE DecodeFrom(_, _)
DecodeFrom(ulaw, i) ==
  IF i > Len(ulaw) THEN [threw |-> FALSE, out |-> <<>>]
  ELSE LET s == muLawToLinearSample(ulaw[i]) IN
       IF ~Int16Fits(s) THEN [threw |-> TRUE, out |-> <<>>]
       ELSE LET rest == DecodeFrom(ulaw, i + 1) IN
            IF rest.threw THEN rest
            ELSE [threw |-> FALSE, out |-> Int16LE(s) \o rest.out]

\* function mulawBase64ToLinear16Buffer(b64); `ulaw` is Buffer.from(b64, 'base64')
mulawBase64ToLinear16Buffer(ulaw) == DecodeFrom(ulaw, 1)

(* ------------------------------- state -------------------------------- *)
VARIABLES
  states,        \* const states = new Map(): key -> state object (0 = no entry)
  stateObjs,     \* the state objects { callSid, googleStream, open } ever created
  recognizeStreams, \* the recognition streams ever opened
  streamSid,     \* per connection: let streamSid = null
  wsClosed,      \* per connection: the close event has been handled
  stopSeen,      \* per connection: a stop event was handled and no start event since
  updates,       \* the calls twilioClient.calls(callSid).update, in order
  crashed,       \* an exception left a handler
  lastEvent,     \* the handler that ran last (kept by the logged specifications only)
  u8,            \* decoder on its own: input byte
  linear,        \* decoder on its own: muLawToLinearSample(u8) once decoded
  decoded,       \* decoder on its own: linear is set
  ulawBuf,       \* decoder on its own: input buffer
  outBuf,        \* decoder on its own: result of mulawBase64ToLinear16Buffer
  outDone,       \* decoder on its own: outBuf is set
  connState,     \* ended-flag bridge, per connection: { googleStream, ended, callSid }
  sttStreams,    \* ended-flag bridge: the streams sttClient.streamingRecognize returned
  connClosed,    \* ended-flag bridge, per connection: the close event has been handled
  safeEndRan,    \* ended-flag bridge, per connection: safeEnd(state) has been called
  connCrashed,   \* ended-flag bridge: an exception left a handler
  connEvent,     \* ended-flag bridge: the handler that ran last
  respConn,      \* responded-flag bridge, per connection: callSid, responded
  respStream,    \* responded-flag bridge, per connection: recognizeStream
  respUpdates,   \* responded-flag bridge: the calls twilioClient.calls(callSid).update
  respHist,      \* responded-flag bridge, per connection: what has been handled so far
  respCrashed,   \* responded-flag bridge: an exception left a handler
  streams,       \* streams-map bridge: const streams = new Map(), streamSid -> { gcpStream }
  gcpStreams,    \* streams-map bridge: the streams createGcpRecognizeStream returned
  srvStreamSid,  \* streams-map bridge, per connection: let streamSid
  srvClosed,     \* streams-map bridge, per connection: the close event has been handled
  srvCrashed     \* streams-map bridge: an exception left a handler

bridgeVars == <<states, stateObjs, recognizeStreams, streamSid, wsClosed,
                stopSeen, updates, crashed>>
codecVars == <<u8, linear, decoded, ulawBuf, outBuf, outDone>>
endedVars == <<connState, sttStreams, connClosed, safeEndRan, connCrashed,
               connEvent>>
respVars == <<respConn, respStream, respUpdates, respHist, respCrashed>>
srvVars == <<streams, gcpStreams, srvStreamSid, srvClosed, srvCrashed>>
otherServers == <<endedVars, respVars, srvVars>>
vars == <<states, stateObjs, recognizeStreams, streamSid, wsClosed,
          stopSeen, updates, crashed, lastEvent, u8, linear, decoded, ulawBuf,
          outBuf, outDone, connState, sttStreams, connClosed, safeEndRan,
          connCrashed, connEvent, respConn, respStream, respUpdates, respHist,
          respCrashed, streams, gcpStreams, srvStreamSid, srvClosed, srvCrashed>>

\* a handled event: which handler, on which connection / stream / update,
\* and for a recognition result its isFinal flag and whether text is left
Ev(kind, who, isFinal, hasText) ==
  [kind |-> kind, who |-> who, isFinal |-> isFinal, hasText |-> hasText]
NoEvent == Ev("none", 0, FALSE, FALSE)

ConfigMsg == [kind |-> "config", audioContent |-> <<>>]
AudioMsg(buf) == [kind |-> "audio", audioContent |-> buf]

InitBridge ==
  /\ states = [k \in MapKeys |-> 0]
  /\ stateObjs = <<>>
  /\ recognizeStreams = <<>>
  /\ streamSid = [c \in Conns |-> Null]
  /\ wsClosed = [c \in Conns |-> FALSE]
  /\ stopSeen = [c \in Conns |-> FALSE]
  /\ updates = <<>>
  /\ crashed = FALSE
  /\ lastEvent = NoEvent

InitCodecIdle ==
  /\ u8 = 0
  /\ linear = 0
  /\ decoded = FALSE
  /\ ulawBuf = <<>>
  /\ outBuf = [threw |-> FALSE, out |-> <<>>]
  /\ outDone = FALSE

\* wss.on('connection'): const state = { googleStream: null, ended: false,
\* callSid: null }
InitEnded ==
  /\ connState = [c \in Conns |->
                   [googleStream |-> 0, ended |-> FALSE, callSid |-> Null]]
  /\ sttStreams = <<>>
  /\ connClosed = [c \in Conns |-> FALSE]
  /\ safeEndRan = [c \in Conns |-> FALSE]
  /\ connCrashed = FALSE
  /\ connEvent = NoEvent

\* no connection of the responded-flag server accepted yet
InitResp ==
  /\ respConn = [c \in Conns |->
                  [connected |-> FALSE, closed |-> FALSE, callSid |-> Null,
                   responded |-> FALSE]]
  /\ respStream = [c \in Conns |->
                    [opened |-> FALSE, written |-> <<>>, ends |-> 0,
                     errored |-> FALSE, deadWrite |-> FALSE]]
  /\ respUpdates = <<>>
  /\ respHist = [c \in Conns |->
                  [startSeen |-> FALSE, stopSeen |-> FALSE,
                   earlyFinal |-> FALSE]]
  /\ respCrashed = FALSE

\* const streams = new Map(); wss.on('connection'): let streamSid;
InitSrv ==
  /\ streams = [k \in MapKeys |-> 0]
  /\ gcpStreams = <<>>
  /\ srvStreamSid = [c \in Conns |-> Undefined]
  /\ srvClosed = [c \in Conns |-> FALSE]
  /\ srvCrashed = FALSE

Init == InitBridge /\ InitCodecIdle /\ InitEnded /\ InitResp /\ InitSrv

(* ----------------------- recognition stream helpers ------------------- *)
\* stream.end(): counted, 2 stands for "twice or more"
EndStream(C, ch) == [C EXCEPT ![ch].ends = Min(@ + 1, 2)]

Alive(C, ch) == C[ch].ends = 0 /\ ~C[ch].errored

AudioCount(C, ch) == Len(SelectSeq(C[ch].written, LAMBDA m : m.kind = "audio"))

\* stream.write(msg): a write on an ended or errored stream is not delivered
WriteStream(C, ch, msg) ==
  IF Alive(C, ch)
  THEN [C EXCEPT ![ch].written = Append(@, msg)]
  ELSE [C EXCEPT ![ch].deadWrite = TRUE]

\* startGoogleStream without the write of the configuration
startGoogleStream_NoConfig(H, C, s) ==
  IF H[s].googleStream # 0 THEN [heap |-> H, chans |-> C]
  ELSE LET ch == Len(C) + 1
           opened == Append(C, [state |-> s, written |-> <<>>, ends |-> 0,
                                errored |-> FALSE, deadWrite |-> FALSE])
       IN  [heap |-> [H EXCEPT ![s].googleStream = ch, ![s].open = TRUE],
            chans |-> opened]

\* startGoogleStream without `if (state.googleStream) return;`
startGoogleStream_NoGuard(H, C, s) ==
  LET ch == Len(C) + 1
      opened == Append(C, [state |-> s, written |-> <<>>, ends |-> 0,
                           errored |-> FALSE, deadWrite |-> FALSE])
  IN  [heap |-> [H EXCEPT ![s].googleStream = ch, ![s].open = TRUE],
       chans |-> WriteStream(opened, ch, ConfigMsg)]

\* function startGoogleStream(state)
startGoogleStream(H, C, s) ==
  IF H[s].googleStream # 0 THEN [heap |-> H, chans |-> C]
  ELSE LET ch == Len(C) + 1
           opened == Append(C, [state |-> s, written |-> <<>>, ends |-> 0,
                                errored |-> FALSE, deadWrite |-> FALSE])
       IN  [heap |-> [H EXCEPT ![s].googleStream = ch, ![s].open = TRUE],
            chans |-> WriteStream(opened, ch, ConfigMsg)]

\* stopGoogleStream without `state.googleStream = null`
stopGoogleStream_KeepsStream(H, C, s) ==
  [heap |-> [H EXCEPT ![s].open = FALSE],
   chans |-> IF H[s].googleStream # 0 THEN EndStream(C, H[s].googleStream)
             ELSE C]

\* stopGoogleStream without the call of end()
stopGoogleStream_NoEnd(H, C, s) ==
  [heap |-> [H EXCEPT ![s].googleStream = 0, ![s].open = FALSE],
   chans |-> C]

\* function stopGoogleStream(state)
stopGoogleStream(H, C, s) ==
  [heap |-> [H EXCEPT ![s].googleStream = 0, ![s].open = FALSE],
   chans |-> IF H[s].googleStream # 0 THEN EndStream(C, H[s].googleStream)
             ELSE C]

\* the error callback without `state.googleStream = null`
onStreamError_KeepsStream(H, C, s) ==
  [heap |-> H,
   chans |-> IF H[s].googleStream # 0 THEN EndStream(C, H[s].googleStream)
             ELSE C]

\* an error callback that clears the stream of every state object (one
\* stream variable shared by all sessions)
onStreamError_AllStates(H, C, s) ==
  [heap |-> [i \in DOMAIN H |-> [H[i] EXCEPT !.googleStream = 0]],
   chans |-> IF H[s].googleStream # 0 THEN EndStream(C, H[s].googleStream)
             ELSE C]

\* .on('error', ...) of the stream opened for state s
onStreamError(H, C, s) ==
  [heap |-> [H EXCEPT ![s].googleStream = 0],
   chans |-> IF H[s].googleStream # 0 THEN EndStream(C, H[s].googleStream)
             ELSE C]

\* the media branch restarting a missing stream but dropping the frame at hand
writeAudio_RestartOnly(H, C, s, buf) ==
  IF H[s].googleStream = 0 THEN startGoogleStream(H, C, s)
  ELSE [heap |-> H,
        chans |-> WriteStream(C, H[s].googleStream, AudioMsg(buf))]

\* the try block of the media branch:
\*   if (!state.googleStream) startGoogleStream(state);
\*   state.googleStream.write({ audioContent: linear16 });
writeAudio(H, C, s, buf) ==
  LET r == IF H[s].googleStream = 0 THEN startGoogleStream(H, C, s)
           ELSE [heap |-> H, chans |-> C]
  IN  [heap |-> r.heap,
       chans |-> WriteStream(r.chans, r.heap[s].googleStream, AudioMsg(buf))]

\* String.prototype.trim on a transcript
RECURSIVE TrimLeft(_)
TrimLeft(t) == IF t # <<>> /\ Head(t) = " " THEN TrimLeft(Tail(t)) ELSE t
RECURSIVE TrimRight(_)
TrimRight(t) ==
  IF t # <<>> /\ t[Len(t)] = " " THEN TrimRight(SubSeq(t, 1, Len(t) - 1)) ELSE t
\* the transcript taken as it comes, without .trim()
Trim_None(t) == t

Trim(t) == TrimRight(TrimLeft(t))

\* updates that are started newest first
issueUpdate_NewestFirst(U, u) == <<u>> \o U

\* sayToCall: twilioClient.calls(callSid).update(...) is started inside the
\* call, before its first await
issueUpdate(U, u) == Append(U, u)

\* the data handler answering every result that has a transcript
shouldRespond_Any(transcript, isFinal) == transcript # <<>>

\* the data handler answers a result: if (!transcript) return; if (isFinal) ...
shouldRespond(transcript, isFinal) == transcript # <<>> /\ isFinal

\* the update issued for the call of the start event handled last (one
\* callSid variable shared by all sessions)
callSidFor_Latest(H, s) == H[Len(H)].callSid

\* sayToCall(state.callSid, ...): the call the update is issued for
callSidFor(H, s) == H[s].callSid

(* ---------------------------- WebSocket handlers ---------------------- *)
\* ws.on('message') without the try around JSON.parse: the SyntaxError is
\* uncaught
Unparseable_Throws(c) ==
  /\ ~crashed /\ ~wsClosed[c]
  /\ crashed' = TRUE
  /\ UNCHANGED <<states, stateObjs, recognizeStreams, streamSid, wsClosed,
                 stopSeen, updates>>
  /\ UNCHANGED <<codecVars, otherServers>>

\* ws.on('message'): JSON.parse throws, catch { return; }
Unparseable(c) ==
  /\ ~crashed /\ ~wsClosed[c]
  /\ UNCHANGED bridgeVars
  /\ UNCHANGED <<codecVars, otherServers>>

\* ws.on('message'), event === 'start'
Start(c, sid, callSid) ==
  /\ ~crashed /\ ~wsClosed[c]
  /\ Len(recognizeStreams) < MaxChannels
  /\ LET s == Len(stateObjs) + 1
         H == Append(stateObjs, [callSid |-> callSid, googleStream |-> 0,
                                 open |-> FALSE, conn |-> c, key |-> sid])
         r == startGoogleStream(H, recognizeStreams, s)
     IN  /\ streamSid' = [streamSid EXCEPT ![c] = sid]
         /\ states' = [states EXCEPT ![sid] = s]
         /\ stateObjs' = r.heap
         /\ recognizeStreams' = r.chans
  /\ stopSeen' = [stopSeen EXCEPT ![c] = FALSE]
  /\ UNCHANGED <<wsClosed, updates, crashed>>
  /\ UNCHANGED <<codecVars, otherServers>>

\* the media branch once the state is found: decode, then the try block
MediaWrite(c, s, payload) ==
  LET dec == mulawBase64ToLinear16Buffer(payload)
  IN  IF payload = NoMedia \/ dec.threw
      THEN /\ crashed' = TRUE
           /\ UNCHANGED <<states, stateObjs, recognizeStreams,
                          streamSid, wsClosed, stopSeen, updates>>
      ELSE LET r == writeAudio(stateObjs, recognizeStreams, s, dec.out)
           IN  /\ stateObjs[s].googleStream = 0
                  => Len(recognizeStreams) < MaxChannels
               /\ stateObjs[s].googleStream # 0
                  => AudioCount(recognizeStreams, stateObjs[s].googleStream)
                       < MaxAudio
               /\ stateObjs' = r.heap
               /\ recognizeStreams' = r.chans
               /\ UNCHANGED <<states, streamSid, wsClosed, stopSeen,
                              updates, crashed>>

\* a media branch that creates the session it does not find (get-or-create
\* under the stream id the media event names)
Media_CreatesSession(c, payload) ==
  IF ~Truthy(streamSid[c]) \/ states[streamSid[c]] = 0
  THEN Start(c, "SD1", "CA1")
  ELSE /\ ~crashed /\ ~wsClosed[c]
       /\ MediaWrite(c, states[streamSid[c]], payload)
       /\ UNCHANGED <<codecVars, otherServers>>

\* ws.on('message'), event === 'media'
Media(c, payload) ==
  /\ ~crashed /\ ~wsClosed[c]
  /\ IF ~Truthy(streamSid[c]) \/ states[streamSid[c]] = 0
     THEN UNCHANGED bridgeVars
     ELSE MediaWrite(c, states[streamSid[c]], payload)
  /\ UNCHANGED <<codecVars, otherServers>>

\* ws.on('message'), event === 'stop'
Stop(c) ==
  /\ ~crashed /\ ~wsClosed[c]
  /\ stopSeen' = [stopSeen EXCEPT ![c] = TRUE]
  /\ IF ~Truthy(streamSid[c]) \/ states[streamSid[c]] = 0
     THEN UNCHANGED <<states, stateObjs, recognizeStreams>>
     ELSE LET s == states[streamSid[c]]
              r == stopGoogleStream(stateObjs, recognizeStreams, s)
          IN  /\ stateObjs' = r.heap
              /\ recognizeStreams' = r.chans
              /\ states' = [states EXCEPT ![streamSid[c]] = 0]
  /\ UNCHANGED <<streamSid, wsClosed, updates, crashed>>
  /\ UNCHANGED <<codecVars, otherServers>>

\* ws.on('close')
Close(c) ==
  /\ ~crashed /\ ~wsClosed[c]
  /\ wsClosed' = [wsClosed EXCEPT ![c] = TRUE]
  /\ IF ~Truthy(streamSid[c])
     THEN UNCHANGED <<states, stateObjs, recognizeStreams>>
     ELSE LET s == states[streamSid[c]]
              r == IF s # 0 THEN stopGoogleStream(stateObjs, recognizeStreams, s)
                   ELSE [heap |-> stateObjs, chans |-> recognizeStreams]
          IN  /\ stateObjs' = r.heap
              /\ recognizeStreams' = r.chans
              /\ states' = [states EXCEPT ![streamSid[c]] = 0]
  /\ UNCHANGED <<streamSid, stopSeen, updates, crashed>>
  /\ UNCHANGED <<codecVars, otherServers>>

(* ----------------------- recognition stream callbacks ----------------- *)
\* .on('error', ...): a stream reports an error once, before or after end()
StreamError(ch) ==
  /\ ~crashed
  /\ ch \in DOMAIN recognizeStreams
  /\ ~recognizeStreams[ch].errored
  /\ LET r == onStreamError(stateObjs,
                            [recognizeStreams EXCEPT ![ch].errored = TRUE],
                            recognizeStreams[ch].state)
     IN  /\ stateObjs' = r.heap
         /\ recognizeStreams' = r.chans
  /\ UNCHANGED <<states, streamSid, wsClosed, stopSeen, updates, crashed>>
  /\ UNCHANGED <<codecVars, otherServers>>

\* .on('data', ...) with a result { alternatives: [{ transcript }], isFinal };
\* results may still arrive after end() (half-close), none after an error
StreamData(ch, text, isFinal) ==
  /\ ~crashed
  /\ ch \in DOMAIN recognizeStreams
  /\ ~recognizeStreams[ch].errored
  /\ LET transcript == Trim(text)
         state == recognizeStreams[ch].state
     IN  IF shouldRespond(transcript, isFinal)
         THEN /\ Len(updates) < MaxUpdates
              /\ updates' = issueUpdate(updates,
                                        [callSid |-> callSidFor(stateObjs, state),
                                         state |-> state, chan |-> ch,
                                         text |-> transcript])
         ELSE UNCHANGED updates
  /\ UNCHANGED <<states, stateObjs, recognizeStreams, streamSid, wsClosed,
                 stopSeen, crashed>>
  /\ UNCHANGED <<codecVars, otherServers>>

\* the rejection without the .catch: an unhandled rejection ends the process
UpdateRejected_Unhandled(i) ==
  /\ ~crashed
  /\ i \in DOMAIN updates
  /\ crashed' = TRUE
  /\ UNCHANGED <<states, stateObjs, recognizeStreams, streamSid, wsClosed,
                 stopSeen, updates>>
  /\ UNCHANGED <<codecVars, otherServers>>

\* sayToCall(...).catch((e) => console.error(...)): the update of a call rejects
UpdateRejected(i) ==
  /\ ~crashed
  /\ i \in DOMAIN updates
  /\ UNCHANGED bridgeVars
  /\ UNCHANGED <<codecVars, otherServers>>

Next ==
  \/ \E c \in Conns, sid \in MapKeys, callSid \in CallSids :
       Start(c, sid, callSid) /\ UNCHANGED lastEvent
  \/ \E c \in Conns, payload \in Payloads :
       Media(c, payload) /\ UNCHANGED lastEvent
  \/ \E c \in Conns : Stop(c) /\ UNCHANGED lastEvent
  \/ \E c \in Conns : Close(c) /\ UNCHANGED lastEvent
  \/ \E c \in Conns : Unparseable(c) /\ UNCHANGED lastEvent
  \/ \E ch \in 1..MaxChannels : StreamError(ch) /\ UNCHANGED lastEvent
  \/ \E ch \in 1..MaxChannels, text \in Transcripts, isFinal \in BOOLEAN :
       StreamData(ch, text, isFinal) /\ UNCHANGED lastEvent
  \/ \E i \in 1..MaxUpdates : UpdateRejected(i) /\ UNCHANGED lastEvent

Spec == Init /\ [][Next]_vars

(* ------------------- the bridge with the handled events logged -------- *)
\* the same handlers on a smaller alphabet, each step recording its event
LogSids == {"SD1"}
LogCallSids == {"CA1"}

NextLog ==
  \/ \E c \in Conns, sid \in LogSids, callSid \in LogCallSids :
       Start(c, sid, callSid) /\ lastEvent' = Ev("start", c, FALSE, FALSE)
  \/ \E c \in Conns, payload \in Payloads :
       Media(c, payload) /\ lastEvent' = Ev("media", c, FALSE, FALSE)
  \/ \E c \in Conns : Stop(c) /\ lastEvent' = Ev("stop", c, FALSE, FALSE)
  \/ \E c \in Conns : Close(c) /\ lastEvent' = Ev("close", c, FALSE, FALSE)
  \/ \E c \in Conns :
       Unparseable(c) /\ lastEvent' = Ev("unparseable", c, FALSE, FALSE)
  \/ \E ch \in 1..MaxChannels :
       StreamError(ch) /\ lastEvent' = Ev("error", ch, FALSE, FALSE)
  \/ \E ch \in 1..MaxChannels, text \in Transcripts, isFinal \in BOOLEAN :
       StreamData(ch, text, isFinal)
         /\ lastEvent' = Ev("data", ch, isFinal, Trim(text) # <<>>)
  \/ \E i \in 1..MaxUpdates :
       UpdateRejected(i) /\ lastEvent' = Ev("rejected", i, FALSE, FALSE)

SpecLog == Init /\ [][NextLog]_vars

(* ------------------- the bridge with distinguishable results ---------- *)
\* the same handlers for one stream id, results carrying different texts
OrderTranscripts == {<<"h">>, <<"j", " ">>}

NextOrder ==
  \/ \E c \in Conns, sid \in LogSids, callSid \in LogCallSids :
       Start(c, sid, callSid) /\ UNCHANGED lastEvent
  \/ \E c \in Conns, payload \in Payloads :
       Media(c, payload) /\ UNCHANGED lastEvent
  \/ \E c \in Conns : Stop(c) /\ UNCHANGED lastEvent
  \/ \E c \in Conns : Close(c) /\ UNCHANGED lastEvent
  \/ \E ch \in 1..MaxChannels : StreamError(ch) /\ UNCHANGED lastEvent
  \/ \E ch \in 1..MaxChannels, text \in OrderTranscripts, isFinal \in BOOLEAN :
       StreamData(ch, text, isFinal) /\ UNCHANGED lastEvent

SpecOrder == Init /\ [][NextOrder]_vars

(* ------------- the helpers called directly on a state object ---------- *)
\* startGoogleStream(state) called on a state that already has a stream
CallStartGoogleStream(s) ==
  /\ ~crashed
  /\ s \in DOMAIN stateObjs
  /\ stateObjs[s].googleStream # 0
  /\ LET r == startGoogleStream(stateObjs, recognizeStreams, s)
     IN  /\ Len(r.chans) <= MaxChannels
         /\ stateObjs' = r.heap
         /\ recognizeStreams' = r.chans
  /\ UNCHANGED <<states, streamSid, wsClosed, stopSeen, updates, crashed>>
  /\ UNCHANGED <<codecVars, otherServers>>

\* stopGoogleStream(state) called on any state, also one already stopped
CallStopGoogleStream(s) ==
  /\ ~crashed
  /\ s \in DOMAIN stateObjs
  /\ LET r == stopGoogleStream(stateObjs, recognizeStreams, s)
     IN  /\ stateObjs' = r.heap
         /\ recognizeStreams' = r.chans
  /\ UNCHANGED <<states, streamSid, wsClosed, stopSeen, updates, crashed>>
  /\ UNCHANGED <<codecVars, otherServers>>

NextApi ==
  \/ NextLog
  \/ \E s \in 1..MaxChannels :
       CallStartGoogleStream(s)
         /\ lastEvent' = Ev("startGoogleStream", s, FALSE, FALSE)
  \/ \E s \in 1..MaxChannels :
       CallStopGoogleStream(s)
         /\ lastEvent' = Ev("stopGoogleStream", s, FALSE, FALSE)

SpecApi == Init /\ [][NextApi]_vars

(* =============== the ended-flag bridge (writeSafe / safeEnd) ========== *)
\* everything the handlers of this server leave alone
outsideEnded == <<bridgeVars, lastEvent, codecVars, respVars, srvVars>>

SttAlive(C, ch) == C[ch].ends = 0 /\ ~C[ch].errored

\* function createGoogleStream(state): the request carries the configuration
createGoogleStream(S, C, c) ==
  [st |-> [S EXCEPT ![c].googleStream = Len(C) + 1],
   chans |-> Append(C, [conn |-> c, written |-> <<>>, ends |-> 0,
                        errored |-> FALSE, listening |-> TRUE])]

\* safeEnd without `if (state.ended) return;`
safeEnd_NoGuard(S, C, c) ==
  [st |-> [S EXCEPT ![c].ended = TRUE, ![c].googleStream = 0],
   chans |-> IF S[c].googleStream # 0
             THEN [C EXCEPT ![S[c].googleStream].ends = Min(@ + 1, 2),
                            ![S[c].googleStream].listening = FALSE]
             ELSE C]

\* function safeEnd(state)
safeEnd(S, C, c) ==
  IF S[c].ended THEN [st |-> S, chans |-> C]
  ELSE [st |-> [S EXCEPT ![c].ended = TRUE, ![c].googleStream = 0],
        chans |-> IF S[c].googleStream # 0
                  THEN [C EXCEPT ![S[c].googleStream].ends = Min(@ + 1, 2),
                                 ![S[c].googleStream].listening = FALSE]
                  ELSE C]

\* function writeSafe(state, chunk): a write on a dead stream throws and is
\* caught, then safeEnd(state)
writeSafe(S, C, c, chunk) ==
  IF S[c].googleStream = 0 \/ S[c].ended THEN [st |-> S, chans |-> C]
  ELSE IF SttAlive(C, S[c].googleStream)
       THEN [st |-> S,
             chans |-> [C EXCEPT ![S[c].googleStream].written = Append(@, chunk)]]
       ELSE safeEnd(S, C, c)

\* case 'start' with createGoogleStream also clearing the ended flag
EndedStart_ResetsEnded(c, callSid) ==
  /\ ~connCrashed /\ ~connClosed[c]
  /\ Len(sttStreams) < MaxChannels
  /\ LET r == createGoogleStream(
                [connState EXCEPT ![c].callSid = callSid, ![c].ended = FALSE],
                sttStreams, c)
     IN  /\ connState' = r.st
         /\ sttStreams' = r.chans
  /\ connEvent' = Ev("start", c, FALSE, FALSE)
  /\ UNCHANGED <<connClosed, safeEndRan, connCrashed>>
  /\ UNCHANGED outsideEnded

\* ws.on('message'), case 'start'
EndedStart(c, callSid) ==
  /\ ~connCrashed /\ ~connClosed[c]
  /\ Len(sttStreams) < MaxChannels
  /\ LET r == createGoogleStream([connState EXCEPT ![c].callSid = callSid],
                                 sttStreams, c)
     IN  /\ connState' = r.st
         /\ sttStreams' = r.chans
  /\ connEvent' = Ev("start", c, FALSE, FALSE)
  /\ UNCHANGED <<connClosed, safeEndRan, connCrashed>>
  /\ UNCHANGED outsideEnded

\* ws.on('message'), case 'media': msg.media.payload raises when the event
\* has no media field
EndedMedia(c, payload) ==
  /\ ~connCrashed /\ ~connClosed[c]
  /\ connEvent' = Ev("media", c, FALSE, FALSE)
  /\ UNCHANGED connClosed
  /\ IF connState[c].ended \/ connState[c].googleStream = 0
     THEN UNCHANGED <<connState, sttStreams, safeEndRan, connCrashed>>
     ELSE IF payload = NoMedia
     THEN /\ connCrashed' = TRUE
          /\ UNCHANGED <<connState, sttStreams, safeEndRan>>
     ELSE LET r == writeSafe(connState, sttStreams, c, payload)
          IN  /\ Len(sttStreams[connState[c].googleStream].written) < MaxAudio
              /\ connState' = r.st
              /\ sttStreams' = r.chans
              /\ safeEndRan' =
                   [safeEndRan EXCEPT
                      ![c] = @ \/ ~SttAlive(sttStreams, connState[c].googleStream)]
              /\ UNCHANGED connCrashed
  /\ UNCHANGED outsideEnded

\* the handlers whose whole body is safeEnd(state)
EndedSafeEnd(c) ==
  /\ LET r == safeEnd(connState, sttStreams, c)
     IN  /\ connState' = r.st
         /\ sttStreams' = r.chans
  /\ safeEndRan' = [safeEndRan EXCEPT ![c] = TRUE]
  /\ UNCHANGED connCrashed
  /\ UNCHANGED outsideEnded

\* ws.on('message'), case 'stop'
EndedStop(c) ==
  /\ ~connCrashed /\ ~connClosed[c]
  /\ EndedSafeEnd(c)
  /\ connEvent' = Ev("stop", c, FALSE, FALSE)
  /\ UNCHANGED connClosed

\* ws.on('close')
EndedClose(c) ==
  /\ ~connCrashed /\ ~connClosed[c]
  /\ EndedSafeEnd(c)
  /\ connEvent' = Ev("close", c, FALSE, FALSE)
  /\ connClosed' = [connClosed EXCEPT ![c] = TRUE]

\* ws.on('error')
EndedWsError(c) ==
  /\ ~connCrashed /\ ~connClosed[c]
  /\ EndedSafeEnd(c)
  /\ connEvent' = Ev("wsError", c, FALSE, FALSE)
  /\ UNCHANGED connClosed

\* ws.on('message'): not JSON, case 'mark', default
EndedIgnored(c) ==
  /\ ~connCrashed /\ ~connClosed[c]
  /\ connEvent' = Ev("ignored", c, FALSE, FALSE)
  /\ UNCHANGED <<connState, sttStreams, connClosed, safeEndRan, connCrashed>>
  /\ UNCHANGED outsideEnded

\* .on('error', ...) of a stream whose listeners are still attached
EndedStreamError(ch) ==
  /\ ~connCrashed
  /\ ch \in DOMAIN sttStreams
  /\ sttStreams[ch].listening /\ ~sttStreams[ch].errored
  /\ LET c == sttStreams[ch].conn
         r == safeEnd(connState, [sttStreams EXCEPT ![ch].errored = TRUE], c)
     IN  /\ connState' = r.st
         /\ sttStreams' = r.chans
         /\ safeEndRan' = [safeEndRan EXCEPT ![c] = TRUE]
  /\ connEvent' = Ev("error", ch, FALSE, FALSE)
  /\ UNCHANGED <<connClosed, connCrashed>>
  /\ UNCHANGED outsideEnded

\* .on('data', ...): the result is logged only
EndedStreamData(ch, isFinal) ==
  /\ ~connCrashed
  /\ ch \in DOMAIN sttStreams
  /\ sttStreams[ch].listening /\ ~sttStreams[ch].errored
  /\ connEvent' = Ev("data", ch, isFinal, TRUE)
  /\ UNCHANGED <<connState, sttStreams, connClosed, safeEndRan, connCrashed>>
  /\ UNCHANGED outsideEnded

NextEnded ==
  \/ \E c \in Conns, callSid \in LogCallSids \cup {Undefined} :
       EndedStart(c, callSid)
  \/ \E c \in Conns, payload \in Payloads : EndedMedia(c, payload)
  \/ \E c \in Conns : EndedStop(c)
  \/ \E c \in Conns : EndedClose(c)
  \/ \E c \in Conns : EndedWsError(c)
  \/ \E c \in Conns : EndedIgnored(c)
  \/ \E ch \in 1..MaxChannels : EndedStreamError(ch)
  \/ \E ch \in 1..MaxChannels, isFinal \in BOOLEAN : EndedStreamData(ch, isFinal)

SpecEnded == Init /\ [][NextEnded]_vars

(* ==================== the responded-flag bridge ======================= *)
\* everything the handlers of this server leave alone
outsideResp == <<bridgeVars, lastEvent, codecVars, endedVars, srvVars>>

\* the payloads of media events: one that decodes, and a missing media field
RespPayloads == {<<>>, NoMedia}

\* the values of data.start?.callSid || null
RespCallSids == LogCallSids \cup {Null}

\* recognizeStream.end()
RespEnd(st) == [st EXCEPT !.ends = Min(@ + 1, 2)]

\* recognizeStream.write(audio): on an ended or errored stream the write is
\* refused and reported through the stream's error handler, which logs
RespWrite(st, audio) ==
  IF st.ends = 0 /\ ~st.errored
  THEN [st EXCEPT !.written = Append(@, audio)]
  ELSE [st EXCEPT !.deadWrite = TRUE]

\* wss.on('connection'): recognizeStream = createRecognizeStream()
RespConnect(c) ==
  /\ ~respCrashed
  /\ ~respConn[c].connected
  /\ respConn' = [respConn EXCEPT ![c].connected = TRUE]
  /\ respStream' = [respStream EXCEPT ![c].opened = TRUE]
  /\ UNCHANGED <<respUpdates, respHist, respCrashed>>
  /\ UNCHANGED outsideResp

\* ws.on('message'), case 'start'
RespStart(c, callSid) ==
  /\ ~respCrashed
  /\ respConn[c].connected /\ ~respConn[c].closed
  /\ respConn' = [respConn EXCEPT ![c].callSid = callSid]
  /\ respHist' = [respHist EXCEPT ![c].startSeen = TRUE]
  /\ UNCHANGED <<respStream, respUpdates, respCrashed>>
  /\ UNCHANGED outsideResp

\* ws.on('message'), case 'media': data.media.payload raises when the event
\* has no media field
RespMedia(c, payload) ==
  /\ ~respCrashed
  /\ respConn[c].connected /\ ~respConn[c].closed
  /\ IF ~respStream[c].opened
     THEN UNCHANGED <<respStream, respCrashed>>
     ELSE IF payload = NoMedia
     THEN respCrashed' = TRUE /\ UNCHANGED respStream
     ELSE /\ Len(respStream[c].written) < MaxAudio
          /\ respStream' = [respStream EXCEPT ![c] = RespWrite(@, payload)]
          /\ UNCHANGED respCrashed
  /\ UNCHANGED <<respConn, respUpdates, respHist>>
  /\ UNCHANGED outsideResp

\* the body shared by case 'stop', ws.on('close') and ws.on('error'):
\* if (recognizeStream) { try { recognizeStream.end(); } catch (_) {} }
RespEndIfStream(c) ==
  /\ respStream' = IF respStream[c].opened
                   THEN [respStream EXCEPT ![c] = RespEnd(@)]
                   ELSE respStream
  /\ UNCHANGED <<respUpdates, respCrashed>>
  /\ UNCHANGED outsideResp

\* ws.on('message'), case 'stop'
RespStop(c) ==
  /\ ~respCrashed
  /\ respConn[c].connected /\ ~respConn[c].closed
  /\ RespEndIfStream(c)
  /\ respHist' = [respHist EXCEPT ![c].stopSeen = TRUE]
  /\ UNCHANGED respConn

\* ws.on('close')
RespClose(c) ==
  /\ ~respCrashed
  /\ respConn[c].connected /\ ~respConn[c].closed
  /\ RespEndIfStream(c)
  /\ respConn' = [respConn EXCEPT ![c].closed = TRUE]
  /\ UNCHANGED respHist

\* ws.on('error')
RespWsError(c) ==
  /\ ~respCrashed
  /\ respConn[c].connected /\ ~respConn[c].closed
  /\ RespEndIfStream(c)
  /\ UNCHANGED <<respConn, respHist>>

\* .on('error', ...): logged only; the stream is dead from then on
RespStreamError(c) ==
  /\ ~respCrashed
  /\ respStream[c].opened /\ ~respStream[c].errored
  /\ respStream' = [respStream EXCEPT ![c].errored = TRUE]
  /\ UNCHANGED <<respConn, respUpdates, respHist, respCrashed>>
  /\ UNCHANGED outsideResp

\* the data handler setting responded on every first final result
RespStreamData_ConsumesFlag(c, isFinal) ==
  /\ ~respCrashed
  /\ respStream[c].opened /\ ~respStream[c].errored
  /\ IF isFinal /\ ~respConn[c].responded
     THEN /\ respConn' = [respConn EXCEPT ![c].responded = TRUE]
          /\ IF Truthy(respConn[c].callSid)
             THEN /\ Len(respUpdates) < MaxUpdates
                  /\ respUpdates' =
                       Append(respUpdates,
                              [conn |-> c, callSid |-> respConn[c].callSid])
             ELSE UNCHANGED respUpdates
     ELSE UNCHANGED <<respConn, respUpdates>>
  /\ respHist' =
       [respHist EXCEPT
          ![c].earlyFinal = @ \/ (isFinal /\ ~Truthy(respConn[c].callSid))]
  /\ UNCHANGED <<respStream, respCrashed>>
  /\ UNCHANGED outsideResp

\* .on('data', ...) with a result; a final result is answered
\* if (!responded && twilioClient && callSid)
RespStreamData(c, isFinal) ==
  /\ ~respCrashed
  /\ respStream[c].opened /\ ~respStream[c].errored
  /\ IF isFinal /\ ~respConn[c].responded /\ Truthy(respConn[c].callSid)
     THEN /\ Len(respUpdates) < MaxUpdates
          /\ respConn' = [respConn EXCEPT ![c].responded = TRUE]
          /\ respUpdates' =
               Append(respUpdates,
                      [conn |-> c, callSid |-> respConn[c].callSid])
     ELSE UNCHANGED <<respConn, respUpdates>>
  /\ respHist' =
       [respHist EXCEPT
          ![c].earlyFinal = @ \/ (isFinal /\ ~Truthy(respConn[c].callSid))]
  /\ UNCHANGED <<respStream, respCrashed>>
  /\ UNCHANGED outsideResp

NextResp ==
  \/ \E c \in Conns : RespConnect(c)
  \/ \E c \in Conns, callSid \in RespCallSids : RespStart(c, callSid)
  \/ \E c \in Conns, payload \in RespPayloads : RespMedia(c, payload)
  \/ \E c \in Conns : RespStop(c)
  \/ \E c \in Conns : RespClose(c)
  \/ \E c \in Conns : RespWsError(c)
  \/ \E c \in Conns : RespStreamError(c)
  \/ \E c \in Conns, isFinal \in BOOLEAN : RespStreamData(c, isFinal)

SpecResp == Init /\ [][NextResp]_vars

(* ===================== the streams-map bridge ========================= *)
\* everything the handlers of this server leave alone
outsideSrv == <<bridgeVars, lastEvent, codecVars, endedVars, respVars>>

\* the values of data.start?.streamSid
SrvSids == LogSids \cup {Undefined}

\* gcpStream.write({ audioContent }): on an ended or errored stream the write
\* is refused and reported through the stream's error handler, which logs
SrvWrite(st, audioBuf) ==
  IF st.ends = 0 /\ ~st.errored
  THEN [st EXCEPT !.written = Append(@, audioBuf)]
  ELSE [st EXCEPT !.deadWrite = TRUE]

\* ws.on('message'), event === 'start': createGcpRecognizeStream(streamSid),
\* streams.set(streamSid, { gcpStream })
SrvStart(c, sid) ==
  /\ ~srvCrashed /\ ~srvClosed[c]
  /\ Len(gcpStreams) < MaxChannels
  /\ srvStreamSid' = [srvStreamSid EXCEPT ![c] = sid]
  /\ gcpStreams' = Append(gcpStreams,
                          [sid |-> sid, conn |-> c, written |-> <<>>,
                           ends |-> 0, errored |-> FALSE, deadWrite |-> FALSE])
  /\ streams' = [streams EXCEPT ![sid] = Len(gcpStreams) + 1]
  /\ UNCHANGED <<srvClosed, srvCrashed>>
  /\ UNCHANGED outsideSrv

\* ws.on('message'), event === 'media': data.media.payload raises when the
\* event has no media field
SrvMedia(c, payload) ==
  /\ ~srvCrashed /\ ~srvClosed[c]
  /\ IF ~Truthy(srvStreamSid[c]) \/ streams[srvStreamSid[c]] = 0
     THEN UNCHANGED <<gcpStreams, srvCrashed>>
     ELSE IF payload = NoMedia
     THEN srvCrashed' = TRUE /\ UNCHANGED gcpStreams
     ELSE LET ch == streams[srvStreamSid[c]]
          IN  /\ Len(gcpStreams[ch].written) < MaxAudio
              /\ gcpStreams' = [gcpStreams EXCEPT ![ch] = SrvWrite(@, payload)]
              /\ UNCHANGED srvCrashed
  /\ UNCHANGED <<streams, srvStreamSid, srvClosed>>
  /\ UNCHANGED outsideSrv

\* ws.on('message'), event === 'stop': streams.get(streamSid) also with an
\* undefined streamSid
SrvStop(c) ==
  /\ ~srvCrashed /\ ~srvClosed[c]
  /\ LET ch == streams[srvStreamSid[c]]
     IN  /\ gcpStreams' = IF ch # 0
                          THEN [gcpStreams EXCEPT ![ch].ends = Min(@ + 1, 2)]
                          ELSE gcpStreams
         /\ streams' = [streams EXCEPT ![srvStreamSid[c]] = 0]
  /\ UNCHANGED <<srvStreamSid, srvClosed, srvCrashed>>
  /\ UNCHANGED outsideSrv

\* ws.on('close')
SrvClose(c) ==
  /\ ~srvCrashed /\ ~srvClosed[c]
  /\ srvClosed' = [srvClosed EXCEPT ![c] = TRUE]
  /\ IF Truthy(srvStreamSid[c]) /\ streams[srvStreamSid[c]] # 0
     THEN /\ gcpStreams' = [gcpStreams EXCEPT
                              ![streams[srvStreamSid[c]]].ends = Min(@ + 1, 2)]
          /\ streams' = [streams EXCEPT ![srvStreamSid[c]] = 0]
     ELSE UNCHANGED <<gcpStreams, streams>>
  /\ UNCHANGED <<srvStreamSid, srvCrashed>>
  /\ UNCHANGED outsideSrv

\* ws.on('message'): not JSON, event === 'mark', any other event; ws.on('error')
SrvIgnored(c) ==
  /\ ~srvCrashed /\ ~srvClosed[c]
  /\ UNCHANGED srvVars
  /\ UNCHANGED outsideSrv

\* .on('error', ...): logged only; the stream is dead from then on
SrvStreamError(ch) ==
  /\ ~srvCrashed
  /\ ch \in DOMAIN gcpStreams
  /\ ~gcpStreams[ch].errored
  /\ gcpStreams' = [gcpStreams EXCEPT ![ch].errored = TRUE]
  /\ UNCHANGED <<streams, srvStreamSid, srvClosed, srvCrashed>>
  /\ UNCHANGED outsideSrv

\* .on('data', ...) and .on('end', ...): logged only
SrvStreamData(ch) ==
  /\ ~srvCrashed
  /\ ch \in DOMAIN gcpStreams
  /\ ~gcpStreams[ch].errored
  /\ UNCHANGED srvVars
  /\ UNCHANGED outsideSrv

NextSrv ==
  \/ \E c \in Conns, sid \in SrvSids : SrvStart(c, sid)
  \/ \E c \in Conns, payload \in Payloads : SrvMedia(c, payload)
  \/ \E c \in Conns : SrvStop(c)
  \/ \E c \in Conns : SrvClose(c)
  \/ \E c \in Conns : SrvIgnored(c)
  \/ \E ch \in 1..MaxChannels : SrvStreamError(ch)
  \/ \E ch \in 1..MaxChannels : SrvStreamData(ch)

SpecSrv == Init /\ [][NextSrv]_vars

(* ======================= properties of the bridge ===================== *)
StreamsOf(s) == {ch \in DOMAIN recognizeStreams : recognizeStreams[ch].state = s}
HasAudio(ch) == AudioCount(recognizeStreams, ch) > 0

\* the session a media or stop event of connection c would find
SessionOf(c) == IF Truthy(streamSid[c]) THEN states[streamSid[c]] ELSE 0

\* a payload the decoder cannot turn into a buffer
Malformed(payload) ==
  \/ payload = NoMedia
  \/ \E i \in DOMAIN payload : ~Int16Fits(muLawToLinearSample(payload[i]))

\* C1: for every session (the state object a start event created) at most
\* one call update is issued, however many final results its streams emit.
C1_AtMostOneUpdatePerTurn ==
  \A s \in DOMAIN stateObjs :
    Cardinality({i \in DOMAIN updates : updates[i].state = s}) <= 1

\* C2: once a connection has handled a stop event (and no start event
\* after it), a media event on that connection writes on no recognition
\* stream, opens none and inserts no entry into the states map.
C2_NoMediaEffectAfterStop ==
  [][\A c \in Conns, payload \in Payloads :
       (stopSeen[c] /\ Media(c, payload))
         => UNCHANGED <<recognizeStreams, states>>]_vars

C4_DuplicateStartIgnored ==
  [][\A c \in Conns, sid \in MapKeys, callSid \in CallSids :
       (/\ SessionOf(c) # 0
        /\ stateObjs[SessionOf(c)].googleStream # 0
        /\ Start(c, sid, callSid))
         => UNCHANGED <<recognizeStreams, states, stateObjs>>]_vars

\* C5: for every stream id at most one recognition stream opened for it has
\* not had end() called.
C5_OneOpenStreamPerSid ==
  \A k \in MapKeys :
    Cardinality({ch \in DOMAIN recognizeStreams :
                   /\ stateObjs[recognizeStreams[ch].state].key = k
                   /\ recognizeStreams[ch].ends = 0}) <= 1

\* C6: after the close event of a connection the states map holds no entry
\* that a start event of the connection inserted and end() has been called
\* on every stream opened for the connection.
C6_NothingOutlivesClose ==
  \A c \in Conns :
    wsClosed[c] =>
      /\ \A k \in MapKeys :
           states[k] # 0 => stateObjs[states[k]].conn # c
      /\ \A ch \in DOMAIN recognizeStreams :
           stateObjs[recognizeStreams[ch].state].conn = c
             => recognizeStreams[ch].ends >= 1

\* C7: no write is issued on a recognition stream after end() was called on
\* it or after it reported an error.
C7_NoWriteOnDeadStream ==
  \A ch \in DOMAIN recognizeStreams : ~recognizeStreams[ch].deadWrite

\* C7 witness: a stream died (error reported, end() called) and a media
\* event was handled for its session afterwards: the audio is on a later
\* stream, the dead one holds the configuration only.
C7_Witness_MediaAfterDeath ==
  \E s \in DOMAIN stateObjs : \E ch1, ch2 \in StreamsOf(s) :
    /\ ch1 # ch2
    /\ recognizeStreams[ch1].errored
    /\ recognizeStreams[ch1].ends >= 1
    /\ recognizeStreams[ch1].written = <<ConfigMsg>>
    /\ HasAudio(ch2)

\* C10: a media event with a malformed payload is dropped: no exception
\* leaves the handler and the states map and the sessions are unchanged.
C10_MalformedMediaDropped ==
  [][\A c \in Conns, payload \in Payloads :
       (Malformed(payload) /\ Media(c, payload))
         => (~crashed' /\ UNCHANGED <<states, stateObjs, recognizeStreams>>)]_vars

\* C11: in a turn start, media^n, stop on a fresh stream id (the only
\* session so far) with no stream error every media event that carries a
\* payload appends exactly its frame, as one audio
\* message, at the end of what the turn's one stream was written (so the n
\* frames are written in the order received, none lost), and opens no stream.
C11_FramesForwardedInOrder ==
  [][\A c \in Conns, payload \in Payloads \ {NoMedia} :
       (/\ Len(stateObjs) = 1 /\ Len(recognizeStreams) = 1
        /\ SessionOf(c) # 0
        /\ stateObjs[SessionOf(c)].conn = c
        /\ stateObjs[SessionOf(c)].googleStream # 0
        /\ \A ch \in StreamsOf(SessionOf(c)) : ~recognizeStreams[ch].errored
        /\ Media(c, payload))
         => LET ch == stateObjs[SessionOf(c)].googleStream
            IN  /\ Len(recognizeStreams') = Len(recognizeStreams)
                /\ \E m \in {AudioMsg(mulawBase64ToLinear16Buffer(payload).out)} :
                     recognizeStreams'[ch].written =
                       Append(recognizeStreams[ch].written, m)]_vars

\* C12: a media event on a connection that has handled no start event
\* (its streamSid is still null) inserts no map entry, opens no stream and
\* writes nothing.
C12_MediaBeforeStartDropped ==
  [][\A c \in Conns, payload \in Payloads :
       (streamSid[c] = Null /\ Media(c, payload))
         => UNCHANGED <<states, stateObjs, recognizeStreams, streamSid>>]_vars

\* C12 witness: the event handled last is a media event of a connection
\* that never started, while another connection has a session.
C12_Witness_StrayMedia ==
  /\ lastEvent.kind = "media"
  /\ streamSid[lastEvent.who] = Null
  /\ \E k \in MapKeys : states[k] # 0

SessionUntouched(c) ==
  LET s == SessionOf(c)
  IN  /\ states'[streamSid[c]] = states[streamSid[c]]
      /\ stateObjs'[s] = stateObjs[s]
      /\ \A ch \in StreamsOf(s) : recognizeStreams'[ch] = recognizeStreams[ch]
      /\ stateObjs[s].googleStream # 0
           => (Alive(recognizeStreams, stateObjs[s].googleStream)
                 => Alive(recognizeStreams', stateObjs'[s].googleStream))

\* C14: for two connections with different stream ids, a stream error, a
\* stop or a close on the session of one leaves the other's map entry, state
\* object (open flag included) and streams unchanged and still writable.
C14_SessionsIndependent ==
  [][\A c1, c2 \in Conns :
       (/\ c1 # c2
        /\ Truthy(streamSid[c1]) /\ Truthy(streamSid[c2])
        /\ streamSid[c1] # streamSid[c2]
        /\ SessionOf(c2) # 0
        /\ \/ Stop(c1)
           \/ Close(c1)
           \/ \E ch \in StreamsOf(SessionOf(c1)) : StreamError(ch))
         => SessionUntouched(c2)]_vars

\* C14 witness: two connections with different stream ids; the stream of one
\* session reported an error, the other session is open and holds audio.
C14_Witness_OneErroredOtherActive ==
  \E c1, c2 \in Conns :
    /\ Truthy(streamSid[c1]) /\ Truthy(streamSid[c2])
    /\ streamSid[c1] # streamSid[c2]
    /\ SessionOf(c1) # 0 /\ SessionOf(c2) # 0
    /\ stateObjs[SessionOf(c1)].googleStream = 0
    /\ \E ch \in StreamsOf(SessionOf(c1)) : recognizeStreams[ch].errored
    /\ stateObjs[SessionOf(c2)].googleStream # 0
    /\ stateObjs[SessionOf(c2)].open
    /\ HasAudio(stateObjs[SessionOf(c2)].googleStream)

\* C15: when the update issued by sayToCall rejects, the failure is
\* swallowed: map, state objects (open flag included), streams and the
\* connections' stream ids are unchanged and no exception ends the process,
\* so the sessions keep taking media.
C15_UpdateFailureSwallowed ==
  [][\A i \in 1..MaxUpdates :
       UpdateRejected(i)
         => UNCHANGED <<states, stateObjs, recognizeStreams, streamSid,
                        wsClosed, crashed>>]_vars

\* C15 witness: the event handled last is the rejection of an update whose
\* session is still in the map with a writable stream.
C15_Witness_RejectedUpdate ==
  /\ lastEvent.kind = "rejected"
  /\ ~crashed
  /\ LET s == updates[lastEvent.who].state
     IN  /\ \E k \in MapKeys : states[k] = s
         /\ stateObjs[s].googleStream # 0
         /\ Alive(recognizeStreams, stateObjs[s].googleStream)

\* C16: every call update is issued for the callSid that the start event
\* creating the session carried, the session being the one whose stream
\* emitted the final result, whatever other sessions exist.
C16_UpdateForOwnCall ==
  \A i \in DOMAIN updates :
    updates[i].callSid =
      stateObjs[recognizeStreams[updates[i].chan].state].callSid

\* C16 witness: an update issued by the stream of the first session while a
\* second session, started for another call, exists.
C16_Witness_TwoCalls ==
  /\ Len(stateObjs) = 2
  /\ stateObjs[1].callSid # stateObjs[2].callSid
  /\ \E i \in DOMAIN updates :
       /\ recognizeStreams[updates[i].chan].state = 1
       /\ updates[i].callSid = stateObjs[1].callSid

\* C17: an interim (non-final) recognition result never causes a call
\* update, whatever its transcript and whatever results came before it.
C17_InterimNeverUpdates ==
  [][\A ch \in 1..MaxChannels : \A text \in Transcripts :
       StreamData(ch, text, FALSE) => UNCHANGED updates]_vars

\* C17 witness: an interim result with a non-empty transcript has just been
\* handled, after a final result that was answered.
C17_Witness_InterimAfterFinal ==
  /\ lastEvent.kind = "data"
  /\ ~lastEvent.isFinal
  /\ lastEvent.hasText
  /\ Len(updates) >= 1
  /\ updates[1].chan = lastEvent.who

\* C18: on every recognition stream ever opened, the first message written
\* is the configuration and every later message is audio.
C18_ConfigBeforeAudio ==
  \A ch \in DOMAIN recognizeStreams :
    LET written == recognizeStreams[ch].written
    IN  written # <<>>
          => /\ written[1] = ConfigMsg
             /\ \A k \in 2..Len(written) : written[k].kind = "audio"

\* C18 witness: a session whose first stream carried configuration and audio
\* and then errored, and whose second stream carries configuration and audio.
C18_Witness_ReopenedAfterError ==
  \E ch1, ch2 \in DOMAIN recognizeStreams :
    /\ ch1 < ch2
    /\ recognizeStreams[ch1].state = recognizeStreams[ch2].state
    /\ recognizeStreams[ch1].errored
    /\ Len(recognizeStreams[ch1].written) = 2
    /\ Len(recognizeStreams[ch2].written) = 2
    /\ recognizeStreams[ch2].written[1] = ConfigMsg
    /\ recognizeStreams[ch2].written[2].kind = "audio"

\* C19: startGoogleStream called on a state whose googleStream is set opens
\* no stream, writes no configuration and leaves the state unchanged.
C19_StartGoogleStreamIdempotent ==
  [][\A s \in 1..MaxChannels :
       CallStartGoogleStream(s)
         => UNCHANGED <<states, stateObjs, recognizeStreams>>]_vars

\* C19 witness: startGoogleStream has just been called on a session that
\* has a live stream with audio on it.
C19_Witness_CalledOnOpenSession ==
  /\ lastEvent.kind = "startGoogleStream"
  /\ lastEvent.who \in DOMAIN stateObjs
  /\ stateObjs[lastEvent.who].googleStream # 0
  /\ stateObjs[lastEvent.who].open
  /\ Alive(recognizeStreams, stateObjs[lastEvent.who].googleStream)
  /\ HasAudio(stateObjs[lastEvent.who].googleStream)

\* C20: a message that is not JSON is dropped: the states map, the
\* connection's streamSid, every session's stream and open flag are
\* unchanged, nothing is written on a stream, no update is issued and the
\* process goes on.
C20_UnparseableDropped ==
  [][\A c \in Conns :
       Unparseable(c)
         => UNCHANGED <<states, stateObjs, recognizeStreams, streamSid,
                        updates, crashed>>]_vars

\* C20 witness: a message that is not JSON has just been handled on a
\* connection that has a session with a live stream.
C20_Witness_GarbageDuringSession ==
  /\ lastEvent.kind = "unparseable"
  /\ ~crashed
  /\ SessionOf(lastEvent.who) # 0
  /\ stateObjs[SessionOf(lastEvent.who)].googleStream # 0
  /\ Alive(recognizeStreams, stateObjs[SessionOf(lastEvent.who)].googleStream)

\* C21: whenever a stop or close handler deletes an entry of the states
\* map, end() has been called on the stream of that entry (or the entry has
\* no stream), and nothing is written, or tried to be written, on an ended
\* stream afterwards.
C21_EndedBeforeDeleted ==
  [][ /\ \A k \in MapKeys :
          (states[k] # 0 /\ states'[k] = 0)
            => LET s == states[k]
                   gs == stateObjs[s].googleStream
               IN  /\ stateObjs'[s].googleStream = 0
                   /\ gs # 0 => recognizeStreams'[gs].ends >= 1
      /\ \A ch \in DOMAIN recognizeStreams :
           recognizeStreams[ch].ends >= 1
             => /\ recognizeStreams'[ch].written = recognizeStreams[ch].written
                /\ recognizeStreams'[ch].deadWrite
                     = recognizeStreams[ch].deadWrite]_vars

\* C21 witness: a stop event has just been handled by the only connection
\* that has a stream id; the entry is gone and its stream, which carried
\* audio, has been ended once.
C21_Witness_StoppedAndDeleted ==
  /\ lastEvent.kind = "stop"
  /\ Truthy(streamSid[lastEvent.who])
  /\ \A c \in Conns \ {lastEvent.who} : streamSid[c] = Null
  /\ states[streamSid[lastEvent.who]] = 0
  /\ Len(stateObjs) = 1 /\ Len(recognizeStreams) = 1
  /\ stateObjs[1].googleStream = 0
  /\ recognizeStreams[1].ends = 1
  /\ ~recognizeStreams[1].errored
  /\ HasAudio(1)

\* C22: right after the error callback of a session's stream, the session
\* is no longer reported as open: state.open is false and state.googleStream
\* is null.
C22_ErrorClearsOpen ==
  [][\A ch \in 1..MaxChannels :
       StreamError(ch)
         => LET s == recognizeStreams[ch].state
            IN  /\ ~stateObjs'[s].open
                /\ stateObjs'[s].googleStream = 0]_vars

\* C24: updates are started in the order in which the final results were
\* emitted: the update for a final result is started after every update
\* started before, which are kept as they are.
C24_UpdatesInEmissionOrder ==
  [][\A ch \in 1..MaxChannels : \A text \in OrderTranscripts :
       StreamData(ch, text, TRUE)
         => /\ Len(updates') = Len(updates) + 1
            /\ SubSeq(updates', 1, Len(updates)) = updates
            /\ updates'[Len(updates')].chan = ch
            /\ updates'[Len(updates')].text = Trim(text)]_vars

\* C24 witness: two final results with different texts were emitted by the
\* same stream and both were answered.
C24_Witness_TwoFinalsOneStream ==
  /\ Len(updates) = 2
  /\ updates[1].chan = updates[2].chan
  /\ updates[1].text # updates[2].text

\* the session of stream ch is in the states map no more
Removed(ch) == \A k \in MapKeys : states[k] # recognizeStreams[ch].state

\* C34: once a session has been removed by stop or close, no update is
\* issued for a result that its recognition stream emits afterwards.
C34_NoUpdateAfterRemoval ==
  [][\A ch \in 1..MaxChannels : \A text \in Transcripts :
       (/\ ch \in DOMAIN recognizeStreams
        /\ recognizeStreams[ch].ends >= 1
        /\ Removed(ch)
        /\ StreamData(ch, text, TRUE))
         => UNCHANGED updates]_vars

\* C35: stop or close handled on one connection never calls end() on a
\* recognition stream of a session that another connection started and
\* never deletes a map entry that another connection inserted.
C35_StopCloseOwnSessionOnly ==
  [][\A c \in Conns :
       (Stop(c) \/ Close(c))
         => /\ \A ch \in DOMAIN recognizeStreams :
                 recognizeStreams'[ch].ends # recognizeStreams[ch].ends
                   => stateObjs[recognizeStreams[ch].state].conn = c
            /\ \A k \in MapKeys :
                 (states[k] # 0 /\ states'[k] = 0)
                   => stateObjs[states[k]].conn = c]_vars

\* a transcript that is empty or white space only
Blank(text) == \A i \in 1..Len(text) : text[i] = " "

\* C36: a final result whose transcript is absent or empty after trimming
\* issues no update and changes no session state.
C36_BlankFinalIgnored ==
  [][\A ch \in 1..MaxChannels : \A text \in Transcripts :
       (Blank(text) /\ StreamData(ch, text, TRUE))
         => UNCHANGED <<updates, states, stateObjs, recognizeStreams,
                        streamSid, crashed>>]_vars

\* C36 witness: a final result without text has just been handled for a
\* session that is in the map with a live stream carrying audio.
C36_Witness_BlankFinalOnLiveSession ==
  /\ lastEvent.kind = "data"
  /\ lastEvent.isFinal
  /\ ~lastEvent.hasText
  /\ lastEvent.who \in DOMAIN recognizeStreams
  /\ ~Removed(lastEvent.who)
  /\ Alive(recognizeStreams, lastEvent.who)
  /\ HasAudio(lastEvent.who)
  /\ updates = <<>>

(* ================= properties of the ended-flag bridge ================ *)
\* C25: once safeEnd has run for a connection, every later media event on
\* that connection writes on no recognition stream and raises nothing.
C25_NoWriteAfterSafeEnd ==
  [][\A c \in Conns : \A payload \in Payloads :
       (safeEndRan[c] /\ EndedMedia(c, payload))
         => /\ sttStreams' = sttStreams
            /\ connCrashed' = connCrashed]_vars

\* C25 witness: a media event has just been handled on a connection whose
\* safeEnd has run and which a later start gave a fresh, live stream.
C25_Witness_MediaAfterSafeEnd ==
  /\ connEvent.kind = "media"
  /\ safeEndRan[connEvent.who]
  /\ ~connCrashed
  /\ connState[connEvent.who].googleStream # 0
  /\ SttAlive(sttStreams, connState[connEvent.who].googleStream)
  /\ sttStreams[connState[connEvent.who].googleStream].written = <<>>

\* C26: after the recognition stream of a connection has reported an
\* error, a new start event opens a fresh stream and the media events that
\* follow are written on that fresh stream.
C26_MediaWrittenAfterRestart ==
  [][\A c \in Conns : \A payload \in Payloads \ {NoMedia} :
       LET gs == connState[c].googleStream
       IN  (/\ \E ch \in DOMAIN sttStreams :
                 sttStreams[ch].conn = c /\ sttStreams[ch].errored
            /\ gs # 0
            /\ SttAlive(sttStreams, gs)
            /\ Len(sttStreams[gs].written) < MaxAudio
            /\ EndedMedia(c, payload))
             => sttStreams'[gs].written = Append(sttStreams[gs].written, payload)]_vars

\* C27: after the close event of a connection has been handled, end() has
\* been called on every recognition stream that the connection's start
\* events created.
C27_AllStreamsEndedAfterClose ==
  \A c \in Conns :
    connClosed[c]
      => \A ch \in DOMAIN sttStreams :
           sttStreams[ch].conn = c => sttStreams[ch].ends >= 1

\* C28: end() is called at most once on any recognition stream, and
\* safeEnd called on a state whose ended flag is set changes nothing: not
\* the state, and no stream is ended.
C28_EndAtMostOnce ==
  [][ /\ \A ch \in DOMAIN sttStreams' : sttStreams'[ch].ends <= 1
      /\ \A c \in Conns :
           (connState[c].ended
              /\ (EndedStop(c) \/ EndedClose(c) \/ EndedWsError(c)))
             => UNCHANGED <<connState, sttStreams>>
      /\ \A ch \in DOMAIN sttStreams :
           (connState[sttStreams[ch].conn].ended /\ EndedStreamError(ch))
             => /\ UNCHANGED connState
                /\ \A k \in DOMAIN sttStreams :
                     sttStreams'[k].ends = sttStreams[k].ends]_vars

\* C28 witness: the close event has just been handled on a connection
\* whose stream carried audio, then reported an error and was ended once.
C28_Witness_CloseAfterStreamError ==
  /\ connEvent.kind = "close"
  /\ connState[connEvent.who].ended
  /\ \E ch \in DOMAIN sttStreams :
       /\ sttStreams[ch].conn = connEvent.who
       /\ sttStreams[ch].errored
       /\ sttStreams[ch].ends = 1
       /\ sttStreams[ch].written # <<>>

(* =============== properties of the responded-flag bridge ============== *)
\* C29: after a connection has handled a stop event, no later media event
\* on that connection causes a write on its recognition stream.
C29_NoWriteAfterStop ==
  [][\A c \in Conns : \A payload \in RespPayloads \ {NoMedia} :
       (/\ respHist[c].stopSeen
        /\ respHist[c].startSeen
        /\ RespMedia(c, payload))
         => UNCHANGED respStream]_vars

UpdatesOf(c) == {i \in DOMAIN respUpdates : respUpdates[i].conn = c}

\* C30: at most one call update is issued per connection, and a final
\* result that arrives while callSid is unset issues no update and leaves
\* the responded flag as it is.
C30_OneUpdatePerConnection ==
  [][ /\ \A c \in Conns :
           Cardinality({i \in DOMAIN respUpdates' : respUpdates'[i].conn = c}) <= 1
      /\ \A c \in Conns :
           (~Truthy(respConn[c].callSid) /\ RespStreamData(c, TRUE))
             => /\ respUpdates' = respUpdates
                /\ respConn'[c].responded = respConn[c].responded]_vars

\* C30 witness: a connection received a final result before its callSid was
\* set and has since issued exactly one update, for its callSid; the other
\* connection has issued its own.
C30_Witness_EarlyFinalThenOneUpdate ==
  \E c \in Conns :
    /\ respHist[c].earlyFinal
    /\ respConn[c].responded
    /\ Cardinality(UpdatesOf(c)) = 1
    /\ \A i \in UpdatesOf(c) : respUpdates[i].callSid = respConn[c].callSid
    /\ Len(respUpdates) = 2

\* C31: end() is called at most once on the recognition stream of a
\* connection over every sequence of stop, close and WebSocket-error
\* events; stated for the sequences of a started connection that finish
\* with its close.
C31_RespEndAtMostOnce ==
  \A c \in Conns :
    (respHist[c].startSeen /\ respConn[c].closed) => respStream[c].ends <= 1

\* C32: no recognition stream is opened and no audio is written for a
\* connection before that connection has handled a start event.
C32_NothingBeforeStart ==
  \A c \in Conns :
    ~respHist[c].startSeen
      => /\ ~respStream[c].opened
         /\ respStream[c].written = <<>>

(* ================ properties of the streams-map bridge ================ *)
\* C33: after the recognition stream of a stream id has reported an error,
\* no later media event for that stream id causes a write on that stream.
C33_NoWriteAfterStreamError ==
  [][\A c \in Conns : \A payload \in Payloads \ {NoMedia} :
       (/\ Truthy(srvStreamSid[c])
        /\ streams[srvStreamSid[c]] # 0
        /\ gcpStreams[streams[srvStreamSid[c]]].errored
        /\ SrvMedia(c, payload))
         => UNCHANGED gcpStreams]_vars

(* ------------------------- the decoder on its own --------------------- *)
InitCodec ==
  /\ InitBridge
  /\ InitEnded
  /\ InitResp
  /\ InitSrv
  /\ u8 \in 0..255
  /\ linear = 0
  /\ decoded = FALSE
  /\ ulawBuf \in SeqsUpTo(BufBytes, MaxBufLen)
  /\ outBuf = [threw |-> FALSE, out |-> <<>>]
  /\ outDone = FALSE

DecodeSample ==
  /\ ~decoded
  /\ linear' = muLawToLinearSample(u8)
  /\ decoded' = TRUE
  /\ UNCHANGED <<u8, ulawBuf, outBuf, outDone>>
  /\ UNCHANGED bridgeVars
  /\ UNCHANGED lastEvent
  /\ UNCHANGED otherServers

DecodeBuffer ==
  /\ ~outDone
  /\ outBuf' = mulawBase64ToLinear16Buffer(ulawBuf)
  /\ outDone' = TRUE
  /\ UNCHANGED <<u8, linear, decoded, ulawBuf>>
  /\ UNCHANGED bridgeVars
  /\ UNCHANGED lastEvent
  /\ UNCHANGED otherServers

NextCodec == DecodeSample \/ DecodeBuffer

SpecCodec == InitCodec /\ [][NextCodec]_vars

(* ======================= properties of the decoder ==================== *)
\* ITU-T G.711 mu-law expansion (the table of Sun's g711.c, ulaw2linear)
ULawReference(b) ==
  LET u == 255 - b
      t == (((u % 16) * 8) + 132) * Pow2((u \div 16) % 8)
  IN  IF u >= 128 THEN 132 - t ELSE t - 132

\* C8: for every byte muLawToLinearSample returns the value of the standard
\* mu-law expansion table.
C8_DecodeMatchesReference == decoded => linear = ULawReference(u8)

\* C9: for every byte muLawToLinearSample returns a signed 16-bit value, so
\* writeInt16LE never raises in mulawBase64ToLinear16Buffer.
C9_DecodeFitsInt16 ==
  /\ decoded => Int16Fits(linear)
  /\ outDone => ~outBuf.threw

\* the signed 16-bit sample stored low byte first at bytes 2i+1, 2i+2
ReadInt16LE(buf, i) ==
  LET w == buf[2 * i + 1] + 256 * buf[2 * i + 2]
  IN  IF w >= 32768 THEN w - 65536 ELSE w

\* C23: for every byte sequence of length n, mulawBase64ToLinear16Buffer
\* returns a buffer of exactly 2n bytes whose i-th little-endian 16-bit
\* sample is muLawToLinearSample of the i-th input byte.
C23_BufferDecodedSampleBySample ==
  outDone
    => /\ ~outBuf.threw
       /\ Len(outBuf.out) = 2 * Len(ulawBuf)
       /\ \A i \in 0..(Len(ulawBuf) - 1) :
            ReadInt16LE(outBuf.out, i) = muLawToLinearSample(ulawBuf[i + 1])

====
